---- MODULE Spec2Model ----
(***************************************************************************)
(* Shotcraft live inventory (src/app.py): a Streamlit script that reads    *)
(* the FORMULA and INVENTORY worksheets of a Google Sheet, lets the user   *)
(* edit On_Hand, writes the edited table back (clear, then update) and     *)
(* computes max sellable cases and shortages for an order size.            *)
(*                                                                         *)
(* Numbers are modelled as integers (integer-valued floats, on which the   *)
(* code's float arithmetic is exact).  A cell or data-frame value is a     *)
(* record [t, s, n]: text (t = "str"), a number or numeric-looking text    *)
(* (t = "num"), or pandas' NaN / None (t = "nan").                         *)
(***************************************************************************)
EXTENDS Integers, Sequences, FiniteSets, TLC

VARIABLES
    formula,    \* the FORMULA worksheet: a grid of cells (never written)
    inventory,  \* the INVENTORY worksheet: a grid of cells
    pc,         \* per session: where the current script run stands
    sync,       \* per session: the Sync button was pressed for this run
    base,       \* per session: the frame the data editor was last given
    edited,     \* per session: the frame the data editor returns
    cases,      \* per session: the "Cases sold" number input
    result,     \* per session: what compute returned in this run
    wrote,      \* per session (history): this run touched INVENTORY
    synced,     \* per session (history): this run's write_onhand completed
    lastValues, \* history: the values of the last completed ws.update
    nsync,      \* history: Sync presses so far (counted with two sessions)
    usage,      \* direct call of compute: its comps argument
    stock,      \* direct call of compute: its onhand argument
    ncases,     \* direct call of compute: its cases argument
    out,        \* direct call of compute: what it returned
    prevMax     \* direct call of compute: max_sell before On_Hand was raised

appVars == <<formula, inventory, pc, sync, base, edited, cases, result,
             wrote, synced, lastValues, nsync>>
fnVars == <<usage, stock, ncases, out, prevMax>>
vars == <<formula, inventory, pc, sync, base, edited, cases, result,
          wrote, synced, lastValues, nsync, usage, stock, ncases, out,
          prevMax>>

----------------------------------------------------------------------------
(* Bounds of the model *)

MaxQty == 2          \* largest On_Hand typed or stored
MaxCases == 1        \* largest order size
MaxUsageRows == 2    \* rows of the usage table in a direct call of compute
MaxStockRows == 2    \* rows of the stock table in a direct call of compute
MaxTyped == 1        \* largest On_Hand typed into the data editor
MaxEditRow == 1      \* the user edits among the first MaxEditRow rows
MaxSyncRows == 2     \* a table of more rows is not synced (it grows on reload)
MaxSyncRowsConc == 4 \* the same, with two sessions
MaxSyncsConc == 3    \* Sync presses in all, with two sessions
GridW == 3           \* columns of a worksheet that are modelled

----------------------------------------------------------------------------
(* Values *)

Str(x) == [t |-> "str", s |-> x, n |-> 0]
Num(x) == [t |-> "num", s |-> "", n |-> x]
NaN == [t |-> "nan", s |-> "", n |-> 0]
Blank == Str("")

Max(a, b) == IF a >= b THEN a ELSE b
Range(f) == {f[i] : i \in DOMAIN f}

\* pd.to_numeric(x, errors="coerce"): text and empty cells become NaN
ToNumeric(v) == IF v.t = "num" THEN v ELSE NaN

\* .fillna(0.0)
FillNa(v) == IF v.t = "nan" THEN Num(0) ELSE v

\* pd.to_numeric(col, errors="coerce").fillna(0.0), as a number
CoerceFill(v) == FillNa(ToNumeric(v)).n

\* Python's ordering of the component names used here ("" < "A" < "B")
NameRank(c) == IF c.t # "str" THEN 0
               ELSE CASE c.s = "" -> 1 [] c.s = "A" -> 2 [] c.s = "B" -> 3 [] OTHER -> 4

----------------------------------------------------------------------------
(* compute(comps, onhand, cases), src/app.py 161-174.                      *)
(* comps: a sequence of [Component, Per_Case, UOM]; onhand: a frame        *)
(* [hasOnHand, rows] with rows [Component, On_Hand].                       *)

\* (mutant) how="inner": a left row without a match is dropped
RECURSIVE MergeInner(_, _)
MergeInner(left, right) ==
    IF left = <<>> THEN <<>>
    ELSE LET l == Head(left)
             Match(r) == r.Component = l.Component
             m == SelectSeq(right, Match)
             Join(v) == [Component |-> l.Component, UOM |-> l.UOM,
                         Per_Case |-> l.Per_Case, On_Hand |-> v]
         IN [i \in 1..Len(m) |-> Join(m[i].On_Hand)] \o MergeInner(Tail(left), right)

\* comps.merge(onhand, on="Component", how="left"): one row per match, in
\* the left frame's order; a left row without a match is kept with NaN.
RECURSIVE MergeLeft(_, _)
MergeLeft(left, right) ==
    IF left = <<>> THEN <<>>
    ELSE LET l == Head(left)
             Match(r) == r.Component = l.Component
             m == SelectSeq(right, Match)
             Join(v) == [Component |-> l.Component, UOM |-> l.UOM,
                         Per_Case |-> l.Per_Case, On_Hand |-> v]
             joined == IF m = <<>> THEN <<Join(NaN)>>
                       ELSE [i \in 1..Len(m) |-> Join(m[i].On_Hand)]
         IN joined \o MergeLeft(Tail(left), right)

\* lines 162-167: the derived frame df
Derive(comps, onhand, c) ==
    LET df == MergeLeft(comps, onhand.rows)
        Row(r) ==
            LET oh == IF onhand.hasOnHand THEN CoerceFill(r.On_Hand) ELSE 0
                per == CoerceFill(r.Per_Case)
            IN [Component |-> r.Component, UOM |-> r.UOM, On_Hand |-> oh,
                Per_Case |-> per, Required |-> per * c,
                Remaining |-> oh - per * c]
    IN [i \in 1..Len(df) |-> Row(df[i])]

\* line 169: candidates = df[df["Per_Case"] > 0]
IsCandidate(r) == r.Per_Case > 0

\* (mutant) math.ceil in place of math.floor
CeilDiv(a, b) == (a + b - 1) \div b

\* (mutant) the operands of the division swapped
SwappedDiv(a, b) == IF a > 0 THEN b \div a ELSE 0

\* math.floor(a / b) for b > 0
FloorDiv(a, b) == a \div b

\* line 170: int(math.floor((On_Hand / Per_Case).min())), 0 without candidates
MaxSell(df) ==
    LET cand == SelectSeq(df, IsCandidate)
        least == CHOOSE r \in Range(cand) :
                   \A q \in Range(cand) :
                      r.On_Hand * q.Per_Case <= q.On_Hand * r.Per_Case
    IN IF cand = <<>> THEN 0 ELSE FloorDiv(least.On_Hand, least.Per_Case)

\* (mutant) Remaining <= 0
IsShortOrZero(r) == r.Remaining <= 0

\* line 172: df[df["Remaining"] < 0]
IsShort(r) == r.Remaining < 0

\* line 173: sort_values("Component"); rows of one name keep their order
RECURSIVE SortByComponent(_)
SortByComponent(rows) ==
    IF rows = <<>> THEN <<>>
    ELSE LET rest == SortByComponent(SubSeq(rows, 1, Len(rows) - 1))
             x == rows[Len(rows)]
             Before(r) == NameRank(r.Component) <= NameRank(x.Component)
             After(r) == NameRank(r.Component) > NameRank(x.Component)
         IN SelectSeq(rest, Before) \o <<x>> \o SelectSeq(rest, After)

compute(comps, onhand, c) ==
    LET df == Derive(comps, onhand, c)
    IN [ok |-> TRUE,
        display |-> SortByComponent(df),
        max_sell |-> MaxSell(df),
        shortages |-> SelectSeq(df, IsShort)]

NoResult == [ok |-> FALSE, display |-> <<>>, max_sell |-> 0, shortages |-> <<>>]

----------------------------------------------------------------------------
(* Direct calls of compute: the inputs are drawn from bounded sets.        *)

Sessions == {"s1", "s2"}

Names == {Str("A"), Str("B")}
PerCaseVals == {Str("x"), NaN, Num(0 - 1), Num(0), Num(1), Num(2)}
\* On_Hand as typed or stored, a negative one (a data anomaly) included
Quantities == {Num(v) : v \in (0 - 1)..MaxQty}
StockVals == {Str("x"), NaN} \cup Quantities

SeqsUpTo(T, k) == UNION {[1..m -> T] : m \in 0..k}

UsageRow(c, p) == [Component |-> Str(c), Per_Case |-> p, UOM |-> Str("ea")]
StockRow(c, v) == [Component |-> Str(c), On_Hand |-> v]

\* every usage table of up to MaxUsageRows rows
UsageTables ==
    SeqsUpTo([Component : Names, Per_Case : PerCaseVals, UOM : {Str("ea")}],
             MaxUsageRows)

\* every stock frame of up to MaxStockRows rows, with the On_Hand column
\* or with the Component column only
StockTables ==
    {[hasOnHand |-> TRUE, rows |-> r] :
        r \in SeqsUpTo([Component : Names, On_Hand : StockVals], MaxStockRows)}
    \cup
    {[hasOnHand |-> FALSE, rows |-> r] :
        r \in SeqsUpTo([Component : Names, On_Hand : {NaN}], MaxStockRows)}

\* chosen usage tables: none, one and two components, Per_Case positive,
\* zero, negative and not numeric, a repeated name
SomeUsages ==
    { <<>>,
      <<UsageRow("A", Num(2))>>, <<UsageRow("A", Num(0))>>, <<UsageRow("A", Num(0 - 1))>>,
      <<UsageRow("A", Str("x"))>>,
      <<UsageRow("A", Num(1)), UsageRow("B", Num(2))>>, <<UsageRow("A", Num(2)), UsageRow("B", Num(1))>>,
      <<UsageRow("B", Num(2)), UsageRow("A", Num(2))>>, <<UsageRow("A", Num(2)), UsageRow("A", Num(1))>>,
      <<UsageRow("A", Num(2)), UsageRow("B", Num(0))>>, <<UsageRow("A", Num(0 - 1)), UsageRow("B", Num(1))>>,
      <<UsageRow("A", NaN), UsageRow("B", Num(2))>> }

\* chosen stock frames: empty, without On_Hand, partial coverage, a repeated
\* name, On_Hand negative and not numeric
SomeStocks ==
    { [hasOnHand |-> TRUE, rows |-> <<>>],
      [hasOnHand |-> FALSE, rows |-> <<StockRow("A", NaN)>>],
      [hasOnHand |-> TRUE, rows |-> <<StockRow("A", Num(MaxQty))>>],
      [hasOnHand |-> TRUE, rows |-> <<StockRow("A", Num(0 - 1))>>],
      [hasOnHand |-> TRUE, rows |-> <<StockRow("A", Str("x"))>>],
      [hasOnHand |-> TRUE, rows |-> <<StockRow("B", Num(1))>>],
      [hasOnHand |-> TRUE, rows |-> <<StockRow("A", Num(1)), StockRow("B", Num(MaxQty))>>],
      [hasOnHand |-> TRUE, rows |-> <<StockRow("A", Num(1)), StockRow("A", Num(0))>>] }

NoPrev == [set |-> FALSE, v |-> 0]

AppIdle ==
    /\ formula = <<>>
    /\ inventory = <<>>
    /\ pc = [s \in Sessions |-> "idle"]
    /\ sync = [s \in Sessions |-> FALSE]
    /\ base = [s \in Sessions |-> <<>>]
    /\ edited = [s \in Sessions |-> <<>>]
    /\ cases = [s \in Sessions |-> 0]
    /\ result = [s \in Sessions |-> NoResult]
    /\ wrote = [s \in Sessions |-> FALSE]
    /\ synced = [s \in Sessions |-> FALSE]
    /\ lastValues = <<>>
    /\ nsync = 0

FnIdle ==
    /\ usage = <<>>
    /\ stock = [hasOnHand |-> TRUE, rows |-> <<>>]
    /\ ncases = 0
    /\ out = NoResult
    /\ prevMax = NoPrev

InitFn ==
    /\ AppIdle
    /\ \/ usage \in UsageTables /\ stock \in SomeStocks
       \/ usage \in SomeUsages /\ stock \in StockTables
    /\ ncases \in 0..MaxCases
    /\ out = NoResult
    /\ prevMax = NoPrev

\* display, max_sell, shortages = compute(comps, onhand, cases)
Apply ==
    /\ ~out.ok
    /\ out' = compute(usage, stock, ncases)
    /\ UNCHANGED <<usage, stock, ncases, prevMax>>
    /\ UNCHANGED appVars

\* compute again after one stock row's On_Hand was raised, all else fixed
Raise(i, v) ==
    /\ out.ok
    /\ ~prevMax.set
    /\ stock.hasOnHand
    /\ i \in DOMAIN stock.rows
    /\ v.n > CoerceFill(stock.rows[i].On_Hand)
    /\ stock' = [stock EXCEPT !.rows[i].On_Hand = v]
    /\ prevMax' = [set |-> TRUE, v |-> out.max_sell]
    /\ out' = compute(usage, stock', ncases)
    /\ UNCHANGED <<usage, ncases>>
    /\ UNCHANGED appVars

NextFn ==
    \/ Apply
    \/ \E i \in 1..MaxStockRows, v \in Quantities : Raise(i, v)

SpecFn == InitFn /\ [][NextFn]_vars

----------------------------------------------------------------------------
(* Worksheets.  A worksheet is a sequence of rows of GridW cells; a cell   *)
(* never written is Blank.                                                 *)

Pad(row) == [j \in 1..GridW |-> IF j <= Len(row) THEN row[j] ELSE Blank]
Grid(rows) == [i \in 1..Len(rows) |-> Pad(rows[i])]

\* ws.get_all_values(): the rows up to the last used row, each cut to the
\* last used column
GetAllValues(grid) ==
    LET usedRows == {i \in DOMAIN grid : \E j \in 1..GridW : grid[i][j] # Blank}
        usedCols == {j \in 1..GridW : \E i \in DOMAIN grid : grid[i][j] # Blank}
        last == IF usedRows = {} THEN 0
                ELSE CHOOSE i \in usedRows : \A k \in usedRows : k <= i
        width == IF usedCols = {} THEN 0
                 ELSE CHOOSE j \in usedCols : \A k \in usedCols : k <= j
    IN [i \in 1..last |-> SubSeq(grid[i], 1, width)]

\* (mutant) the sheet is not cleared
ClearNothing(grid) == grid

\* ws.clear()
ClearSheet(grid) == <<>>

\* ws.update(values): the block is written from cell A1; cells outside the
\* block keep what they hold
UpdateSheet(grid, values) ==
    [i \in 1..Max(Len(grid), Len(values)) |->
        [j \in 1..GridW |->
            IF i <= Len(values) /\ j <= Len(values[i]) THEN values[i][j]
            ELSE IF i <= Len(grid) THEN grid[i][j]
            ELSE Blank]]

\* read_ws_df(ws): the first row is the header
read_ws_df(grid) ==
    LET values == GetAllValues(grid)
    IN IF values = <<>> THEN [cols |-> <<>>, rows |-> <<>>]
       ELSE [cols |-> Head(values), rows |-> Tail(values)]

HasCol(df, name) == \E j \in DOMAIN df.cols : df.cols[j] = Str(name)
ColOf(df, name) ==
    CHOOSE j \in DOMAIN df.cols :
        /\ df.cols[j] = Str(name)
        /\ \A k \in 1..(j - 1) : df.cols[k] # Str(name)
Cell(df, i, name) == df.rows[i][ColOf(df, name)]

----------------------------------------------------------------------------
(* load_data, src/app.py 128-151 *)

\* lines 141-143: FORMULA must have the headers Component and Per_Case
NeedColumns == {"Component", "Per_Case"}
FormulaError(fgrid) ==
    \E c \in NeedColumns : ~HasCol(read_ws_df(fgrid), c)

\* lines 135-137, 145-146: comps, with Per_Case coerced and UOM defaulted
FormulaComps(fgrid) ==
    LET f == read_ws_df(fgrid)
    IN [i \in 1..Len(f.rows) |->
          [Component |-> Cell(f, i, "Component"),
           Per_Case |-> ToNumeric(Cell(f, i, "Per_Case")),
           UOM |-> IF HasCol(f, "UOM") THEN Cell(f, i, "UOM") ELSE Str("")]]

\* lines 138-139, 147-150: onhand, synthesized when INVENTORY lacks a column
InventoryOnHand(igrid, comps) ==
    LET inv == read_ws_df(igrid)
    IN IF HasCol(inv, "Component") /\ HasCol(inv, "On_Hand")
       THEN [hasOnHand |-> TRUE,
             rows |-> [i \in 1..Len(inv.rows) |->
                         [Component |-> Cell(inv, i, "Component"),
                          On_Hand |-> ToNumeric(Cell(inv, i, "On_Hand"))]]]
       ELSE [hasOnHand |-> TRUE,
             rows |-> [i \in 1..Len(comps) |->
                         [Component |-> comps[i].Component, On_Hand |-> Num(0)]]]

load_data(fgrid, igrid) ==
    IF FormulaError(fgrid)
    THEN [err |-> TRUE, comps |-> <<>>,
          onhand |-> [hasOnHand |-> TRUE, rows |-> <<>>]]
    ELSE [err |-> FALSE, comps |-> FormulaComps(fgrid),
          onhand |-> InventoryOnHand(igrid, FormulaComps(fgrid))]

----------------------------------------------------------------------------
(* The script's main part, src/app.py 188-238 *)

\* lines 206-207: base = comps.merge(onhand), On_Hand coerced and filled
BaseFrame(comps, onhand) ==
    LET df == MergeLeft(comps, onhand.rows)
    IN [i \in 1..Len(df) |-> [df[i] EXCEPT !.On_Hand = Num(CoerceFill(@))]]

\* lines 209-220: st.data_editor keeps the user's edits while it is given
\* the same data, and starts again from the data when the data changed
DataEditor(newBase, oldBase, oldEdited) ==
    IF newBase = oldBase THEN oldEdited ELSE newBase

\* line 238: edited[["Component","On_Hand"]]
OnHandOf(ed) ==
    [hasOnHand |-> TRUE,
     rows |-> [i \in 1..Len(ed) |->
                 [Component |-> ed[i].Component, On_Hand |-> ed[i].On_Hand]]]

\* (mutant) On_Hand written without fillna(0): a missing value goes out as ""
WriteValuesRaw(ed) ==
    <<<<Str("Component"), Str("On_Hand")>>>> \o
    [i \in 1..Len(ed) |->
        <<ed[i].Component,
          IF ed[i].On_Hand.t = "num" THEN ed[i].On_Hand ELSE Blank>>]

\* write_onhand, lines 155-157: the header and the rows written
WriteValues(ed) ==
    <<<<Str("Component"), Str("On_Hand")>>>> \o
    [i \in 1..Len(ed) |-> <<ed[i].Component, Num(CoerceFill(ed[i].On_Hand))>>]

\* what the user can type into an On_Hand cell: a number or nothing
EditVals == {NaN} \cup {Num(v) : v \in (0 - 1)..MaxTyped}

\* a new script run: the first visit, Reload, Revert or a browser refresh
Start(s) ==
    /\ pc[s] \in {"idle", "done", "halted"}
    /\ pc' = [pc EXCEPT ![s] = "load"]
    /\ sync' = [sync EXCEPT ![s] = FALSE]
    /\ result' = [result EXCEPT ![s] = NoResult]
    /\ wrote' = [wrote EXCEPT ![s] = FALSE]
    /\ synced' = [synced EXCEPT ![s] = FALSE]
    /\ UNCHANGED <<formula, inventory, base, edited, cases, lastValues>>
    /\ UNCHANGED <<fnVars, nsync>>

\* the user types v into On_Hand of row i: the script runs again
Edit(s, i, v) ==
    /\ pc[s] = "done"
    /\ i \in DOMAIN edited[s]
    /\ i <= MaxEditRow
    /\ edited[s][i].On_Hand # v
    /\ edited' = [edited EXCEPT ![s][i].On_Hand = v]
    /\ pc' = [pc EXCEPT ![s] = "load"]
    /\ sync' = [sync EXCEPT ![s] = FALSE]
    /\ result' = [result EXCEPT ![s] = NoResult]
    /\ wrote' = [wrote EXCEPT ![s] = FALSE]
    /\ synced' = [synced EXCEPT ![s] = FALSE]
    /\ UNCHANGED <<formula, inventory, base, cases, lastValues>>
    /\ UNCHANGED <<fnVars, nsync>>

\* line 236: the user changes "Cases sold": the script runs again
SetCases(s, c) ==
    /\ pc[s] = "done"
    /\ c # cases[s]
    /\ cases' = [cases EXCEPT ![s] = c]
    /\ pc' = [pc EXCEPT ![s] = "load"]
    /\ sync' = [sync EXCEPT ![s] = FALSE]
    /\ result' = [result EXCEPT ![s] = NoResult]
    /\ wrote' = [wrote EXCEPT ![s] = FALSE]
    /\ synced' = [synced EXCEPT ![s] = FALSE]
    /\ UNCHANGED <<formula, inventory, base, edited, lastValues>>
    /\ UNCHANGED <<fnVars, nsync>>

\* line 224: the user presses Sync: the script runs again with the button set
Press(s, maxRows) ==
    /\ pc[s] = "done"
    /\ Len(edited[s]) <= maxRows
    /\ pc' = [pc EXCEPT ![s] = "load"]
    /\ sync' = [sync EXCEPT ![s] = TRUE]
    /\ result' = [result EXCEPT ![s] = NoResult]
    /\ wrote' = [wrote EXCEPT ![s] = FALSE]
    /\ synced' = [synced EXCEPT ![s] = FALSE]
    /\ UNCHANGED <<formula, inventory, base, edited, cases, lastValues>>
    /\ UNCHANGED fnVars

PressSync(s) == Press(s, MaxSyncRows) /\ UNCHANGED nsync

\* the same with two sessions, the presses counted
PressSyncConc(s) ==
    /\ nsync < MaxSyncsConc
    /\ Press(s, MaxSyncRowsConc)
    /\ nsync' = nsync + 1

\* (mutant) the except branch without st.stop(): the run goes on
LoadNoStop(s) ==
    /\ pc[s] = "load"
    /\ LET l == load_data(formula, inventory)
           b == BaseFrame(l.comps, l.onhand)
       IN /\ pc' = [pc EXCEPT ![s] = IF sync[s] THEN "clear" ELSE "compute"]
          /\ base' = [base EXCEPT ![s] = b]
          /\ edited' = [edited EXCEPT ![s] = DataEditor(b, base[s], edited[s])]
    /\ UNCHANGED <<formula, inventory, sync, cases, result, wrote, synced,
                   lastValues>>
    /\ UNCHANGED <<fnVars, nsync>>

\* lines 188-220: load_data, then base and the data editor; an exception of
\* load_data is reported and st.stop() ends the run
Load(s) ==
    /\ pc[s] = "load"
    /\ LET l == load_data(formula, inventory)
           b == BaseFrame(l.comps, l.onhand)
       IN IF l.err
          THEN /\ pc' = [pc EXCEPT ![s] = "halted"]
               /\ UNCHANGED <<base, edited>>
          ELSE /\ pc' = [pc EXCEPT ![s] = IF sync[s] THEN "clear" ELSE "compute"]
               /\ base' = [base EXCEPT ![s] = b]
               /\ edited' = [edited EXCEPT ![s] = DataEditor(b, base[s], edited[s])]
    /\ UNCHANGED <<formula, inventory, sync, cases, result, wrote, synced,
                   lastValues>>
    /\ UNCHANGED <<fnVars, nsync>>

\* write_onhand, line 158: ws.clear()
Clear(s) ==
    /\ pc[s] = "clear"
    /\ inventory' = ClearSheet(inventory)
    /\ wrote' = [wrote EXCEPT ![s] = TRUE]
    /\ pc' = [pc EXCEPT ![s] = "update"]
    /\ UNCHANGED <<formula, sync, base, edited, cases, result, synced, lastValues>>
    /\ UNCHANGED <<fnVars, nsync>>

\* write_onhand, line 159: ws.update(values)
Update(s) ==
    /\ pc[s] = "update"
    /\ inventory' = UpdateSheet(inventory, WriteValues(edited[s]))
    /\ lastValues' = WriteValues(edited[s])
    /\ wrote' = [wrote EXCEPT ![s] = TRUE]
    /\ synced' = [synced EXCEPT ![s] = TRUE]
    /\ pc' = [pc EXCEPT ![s] = "compute"]
    /\ UNCHANGED <<formula, sync, base, edited, cases, result>>
    /\ UNCHANGED <<fnVars, nsync>>

\* lines 225-229: a call of write_onhand raises (the API fails): the
\* exception is reported as "Sync failed" and the run goes on
SyncFail(s) ==
    /\ pc[s] \in {"clear", "update"}
    /\ pc' = [pc EXCEPT ![s] = "compute"]
    /\ UNCHANGED <<formula, inventory, sync, base, edited, cases, result, wrote,
                   synced, lastValues>>
    /\ UNCHANGED <<fnVars, nsync>>

\* line 238: compute(comps, edited[["Component","On_Hand"]], cases)
Compute(s) ==
    /\ pc[s] = "compute"
    /\ result' = [result EXCEPT ![s] =
                    compute(FormulaComps(formula), OnHandOf(edited[s]), cases[s])]
    /\ pc' = [pc EXCEPT ![s] = "done"]
    /\ UNCHANGED <<formula, inventory, sync, base, edited, cases, wrote, synced,
                   lastValues>>
    /\ UNCHANGED <<fnVars, nsync>>

----------------------------------------------------------------------------
(* The worksheets the runs start from *)

H(a, b, c) == <<Str(a), Str(b), Str(c)>>

FormulaSheets ==
    { Grid(<<H("Component", "Per_Case", "UOM"),
             <<Str("A"), Num(2), Str("ea")>>, <<Str("B"), Num(1), Str("kg")>>>>),
      \* a repeated component name, no UOM column
      Grid(<<H("Component", "Per_Case", ""),
             <<Str("A"), Num(2)>>, <<Str("A"), Num(1)>>>>),
      \* Per_Case not numeric, empty
      Grid(<<H("UOM", "Per_Case", "Component"),
             <<Str("ea"), Str("x"), Str("A")>>, <<Blank, Blank, Str("B")>>>>),
      \* Per_Case zero and negative
      Grid(<<H("Component", "Per_Case", ""),
             <<Str("A"), Num(0)>>, <<Str("B"), Num(0 - 1)>>>>),
      \* headers only
      Grid(<<H("Component", "Per_Case", "UOM")>>),
      \* no Per_Case column
      Grid(<<H("Component", "UOM", ""), <<Str("A"), Str("ea")>>>>),
      \* no Component column
      Grid(<<H("Per_Case", "UOM", ""), <<Num(2), Str("ea")>>>>),
      \* an empty worksheet
      <<>> }

InventorySheets ==
    { Grid(<<H("Component", "On_Hand", ""),
             <<Str("A"), Num(1)>>, <<Str("B"), Num(0)>>>>),
      \* a repeated name, On_Hand not numeric, a third column
      Grid(<<H("Component", "On_Hand", "Note"),
             <<Str("A"), Str("x"), Str("old")>>, <<Str("A"), Num(1), Blank>>>>),
      \* partial coverage, a negative On_Hand, more rows than components
      Grid(<<H("On_Hand", "Component", ""),
             <<Num(0 - 1), Str("B")>>, <<Blank, Str("C")>>, <<Num(1), Str("C")>>>>),
      \* no On_Hand column
      Grid(<<H("Component", "Qty", ""), <<Str("A"), Num(1)>>>>),
      \* an empty worksheet
      <<>> }

Init ==
    /\ FnIdle
    /\ formula \in FormulaSheets
    /\ inventory \in InventorySheets
    /\ pc = [s \in Sessions |-> "idle"]
    /\ sync = [s \in Sessions |-> FALSE]
    /\ base = [s \in Sessions |-> <<>>]
    /\ edited = [s \in Sessions |-> <<>>]
    /\ cases = [s \in Sessions |-> 0]
    /\ result = [s \in Sessions |-> NoResult]
    /\ wrote = [s \in Sessions |-> FALSE]
    /\ synced = [s \in Sessions |-> FALSE]
    /\ lastValues = <<>>
    /\ nsync = 0

\* one session: the script runs of one user, one after the other
Next ==
    \E s \in {"s1"} :
        \/ Start(s)
        \/ \E i \in 1..MaxEditRow, v \in EditVals : Edit(s, i, v)
        \/ \E c \in 0..MaxCases : SetCases(s, c)
        \/ PressSync(s)
        \/ Load(s)
        \/ Clear(s)
        \/ Update(s)
        \/ SyncFail(s)
        \/ Compute(s)

Spec == Init /\ [][Next]_vars

----------------------------------------------------------------------------
(* Two sessions: each runs the script on its own; their reads and writes   *)
(* of the worksheet interleave call by call.                               *)

DupFormula ==
    Grid(<<H("Component", "Per_Case", ""),
           <<Str("A"), Num(2)>>, <<Str("A"), Num(1)>>>>)

OneRowInventory ==
    Grid(<<H("Component", "On_Hand", ""), <<Str("A"), Num(3)>>>>)

\* what each session types, so that its rows can be told from the other's
Typed(s) == IF s = "s1" THEN Num(1) ELSE Num(2)

InitConc ==
    /\ FnIdle
    /\ formula = DupFormula
    /\ inventory = OneRowInventory
    /\ pc = [s \in Sessions |-> "idle"]
    /\ sync = [s \in Sessions |-> FALSE]
    /\ base = [s \in Sessions |-> <<>>]
    /\ edited = [s \in Sessions |-> <<>>]
    /\ cases = [s \in Sessions |-> 0]
    /\ result = [s \in Sessions |-> NoResult]
    /\ wrote = [s \in Sessions |-> FALSE]
    /\ synced = [s \in Sessions |-> FALSE]
    /\ lastValues = <<>>
    /\ nsync = 0

NextConc ==
    \E s \in Sessions :
        \/ Start(s)
        \/ Edit(s, 1, Typed(s))
        \/ PressSyncConc(s)
        \/ Load(s)
        \/ Clear(s)
        \/ Update(s)
        \/ Compute(s)

SpecConc == InitConc /\ [][NextConc]_vars

----------------------------------------------------------------------------
(* The claims *)

\* a cell read as a number: what is not numeric counts as 0
AsNumber(v) == IF v.t = "num" THEN v.n ELSE 0

\* the rows of the left join of u and st, as <<Per_Case, On_Hand>>
JoinedPairs(u, st) ==
    {<<AsNumber(u[p[1]].Per_Case),
       IF st.hasOnHand THEN AsNumber(st.rows[p[2]].On_Hand) ELSE 0>> :
        p \in {q \in (DOMAIN u) \X (DOMAIN st.rows) :
                  u[q[1]].Component = st.rows[q[2]].Component}}
    \cup
    {<<AsNumber(u[i].Per_Case), 0>> :
        i \in {k \in DOMAIN u :
                  \A j \in DOMAIN st.rows : st.rows[j].Component # u[k].Component}}

PositivePairs == {p \in JoinedPairs(usage, stock) : p[1] > 0}

\* C1: max_sell returned by compute is floor(min(On_Hand / Per_Case)) over
\* exactly the joined rows whose coerced Per_Case is > 0 (the largest m with
\* m * Per_Case <= On_Hand on every such row), and 0 when there is no such
\* row; rows with Per_Case <= 0 do not count.
C1_MaxSellIsFloorOfMinRatio ==
    out.ok =>
        IF PositivePairs = {} THEN out.max_sell = 0
        ELSE /\ \A p \in PositivePairs : out.max_sell * p[1] <= p[2]
             /\ \E p \in PositivePairs : p[2] < (out.max_sell + 1) * p[1]

\* C1 witness: compute returned 0 = floor(1/2) with a row of Per_Case <= 0
\* and a smaller On_Hand beside it
C1_Witness ==
    /\ out.ok
    /\ out.max_sell = 0
    /\ <<2, 1>> \in PositivePairs
    /\ \E p \in JoinedPairs(usage, stock) : p[1] <= 0 /\ p[2] < 0

\* C2: max_sell returned by compute is never negative, also when an On_Hand
\* is negative.
C2_MaxSellNonNegative == out.ok => out.max_sell >= 0

\* C3: the display table has exactly one row per usage row, whatever the
\* stock table, in the app's runs.
C3_OneDisplayRowPerUsageRow ==
    \A s \in Sessions :
        result[s].ok => Len(result[s].display) = Len(FormulaComps(formula))

\* C4: the shortage table holds exactly the derived rows with
\* Remaining = On_Hand - Per_Case * cases < 0: no row with Remaining 0, every
\* row with Remaining < 0, each of them a row of the display table.
C4_ShortagesAreTheNegativeRows ==
    out.ok =>
        /\ \A r \in Range(out.display) :
              r.Remaining = r.On_Hand - r.Per_Case * ncases
        /\ \A r \in Range(out.shortages) :
              r \in Range(out.display) /\ r.On_Hand < r.Per_Case * ncases
        /\ \A r \in Range(out.display) :
              r.On_Hand < r.Per_Case * ncases => r \in Range(out.shortages)
        /\ Len(out.shortages) =
              Cardinality({i \in DOMAIN out.display :
                              out.display[i].On_Hand
                                  < out.display[i].Per_Case * ncases})

\* C4 witness: a shortage beside a row that needs all of its stock
C4_Witness ==
    /\ out.ok
    /\ out.shortages # <<>>
    /\ \E r \in Range(out.display) :
          r.Per_Case > 0 /\ r.Remaining = 0 /\ r \notin Range(out.shortages)

\* the header row of FORMULA lacks Component or Per_Case
FormulaLacksColumn ==
    \/ formula = <<>>
    \/ \E c \in {"Component", "Per_Case"} :
          \A j \in 1..GridW : formula[1][j] # Str(c)

\* C5: when FORMULA lacks the Component or the Per_Case column, the run
\* halts at load_data: compute is not reached, no result is produced and
\* INVENTORY is not written in that run.
C5_MissingColumnHaltsTheRun ==
    FormulaLacksColumn =>
        \A s \in {"s1"} :
            /\ pc[s] \in {"idle", "load", "halted"}
            /\ ~result[s].ok
            /\ ~wrote[s]
            /\ inventory \in InventorySheets

\* C5 witness: a run halted on a FORMULA with Component but without Per_Case
C5_Witness ==
    /\ pc["s1"] = "halted"
    /\ formula # <<>>
    /\ \E j \in 1..GridW : formula[1][j] = Str("Component")

\* the columns of a worksheet headed name
HeaderCols(grid, name) ==
    IF grid = <<>> THEN {} ELSE {j \in 1..GridW : grid[1][j] = Str(name)}

\* the On_Hand cells INVENTORY holds for component c, read as numbers
StoredOnHand(c) ==
    {AsNumber(inventory[i][jo]) :
        <<i, jc, jo>> \in
            {t \in (2..Len(inventory)) \X HeaderCols(inventory, "Component")
                     \X HeaderCols(inventory, "On_Hand") :
                inventory[t[1]][t[2]] = c}}

\* C6: a Per_Case or On_Hand cell that is text, empty or missing (no stock
\* row for the component, or INVENTORY without the Component or On_Hand
\* column) counts as 0, and the run still returns a result with a row for
\* every usage row.
C6_BadCellsCountAsZero ==
    ~FormulaLacksColumn =>
        \A s \in {"s1"} :
            /\ (pc[s] \in {"compute", "done"} /\ ~wrote[s]) =>
                  \A b \in Range(base[s]) :
                      /\ b.On_Hand.t = "num"
                      /\ IF StoredOnHand(b.Component) = {}
                         THEN b.On_Hand.n = 0
                         ELSE b.On_Hand.n \in StoredOnHand(b.Component)
            /\ pc[s] = "done" =>
                  /\ result[s].ok
                  /\ \A i \in 2..Len(formula) :
                        \E r \in Range(result[s].display) :
                            \E jc \in HeaderCols(formula, "Component"),
                               jp \in HeaderCols(formula, "Per_Case") :
                                /\ r.Component = formula[i][jc]
                                /\ r.Per_Case = AsNumber(formula[i][jp])
                  /\ \A r \in Range(result[s].display) :
                        \E e \in Range(edited[s]) :
                            /\ r.Component = e.Component
                            /\ r.On_Hand = AsNumber(e.On_Hand)

\* C6 witness: a result from a FORMULA with a Per_Case that is text, an
\* INVENTORY without the On_Hand column and an On_Hand cell left empty
C6_Witness ==
    /\ pc["s1"] = "done"
    /\ ~wrote["s1"]
    /\ result["s1"].ok
    /\ \E i \in 2..Len(formula), j \in HeaderCols(formula, "Per_Case") :
          formula[i][j] = Str("x")
    /\ inventory # <<>>
    /\ HeaderCols(inventory, "On_Hand") = {}
    /\ \E e \in Range(edited["s1"]) : e.On_Hand = NaN

\* the worksheet that holds the header and the rows of ed, and nothing else
SheetOf(ed) ==
    [i \in 1..(Len(ed) + 1) |->
        [j \in 1..GridW |->
            IF i = 1
            THEN (IF j = 1 THEN Str("Component")
                  ELSE IF j = 2 THEN Str("On_Hand") ELSE Blank)
            ELSE (IF j = 1 THEN ed[i - 1].Component
                  ELSE IF j = 2 THEN Num(AsNumber(ed[i - 1].On_Hand))
                  ELSE Blank)]]

\* C7: when a sync has completed, INVENTORY holds the header Component,
\* On_Hand and the rows of the edited table, On_Hand as a number with 0 for a
\* missing value, and nothing of what it held before; the sheet is empty
\* when the rows are written.
C7_SyncReplacesTheSheet ==
    \A s \in {"s1"} :
        /\ pc[s] = "update" => inventory = <<>>
        /\ synced[s] => inventory = SheetOf(edited[s])

\* C7 witness: a completed sync of two rows, one with On_Hand left empty
C7_Witness ==
    /\ synced["s1"]
    /\ Len(edited["s1"]) = 2
    /\ \E e \in Range(edited["s1"]) : e.On_Hand = NaN

\* C8: with two sessions syncing, once no write is under way INVENTORY holds
\* the whole table of the session whose update finished last, and nothing
\* else.
C8_LastWriterWins ==
    ((\A s \in Sessions : pc[s] \notin {"clear", "update"}) /\ lastValues # <<>>)
        => inventory = Grid(lastValues)

\* the (Component, On_Hand) rows that were synced
SyncedRows(ed) ==
    [i \in 1..Len(ed) |->
        [Component |-> ed[i].Component, On_Hand |-> Num(AsNumber(ed[i].On_Hand))]]

\* C9: only a step of a sync changes INVENTORY (an edit, a change of cases, a
\* load or a compute leaves it as it is), and after a completed sync
\* load_data returns the synced On_Hand of every row.
C9_OnlySyncWritesAndReloadReturnsIt ==
    /\ [][inventory' # inventory =>
            \E s \in Sessions : sync[s] /\ pc[s] \in {"clear", "update"}]_vars
    /\ [](\A s \in {"s1"} :
            synced[s] =>
                /\ ~load_data(formula, inventory).err
                /\ load_data(formula, inventory).onhand.rows = SyncedRows(edited[s]))

\* C9 witness: a completed sync of an edited table that differs from the
\* table that was loaded
C9_Witness ==
    /\ synced["s1"]
    /\ edited["s1"] # base["s1"]
    /\ \E e \in Range(edited["s1"]) : e.On_Hand = Num(MaxTyped)

\* C10: after one stock row's On_Hand was raised, all else fixed, max_sell
\* is not smaller than before.
C10_MaxSellMonotoneInOnHand ==
    prevMax.set => out.max_sell >= prevMax.v

\* C10 witness: raising an On_Hand raised max_sell
C10_Witness ==
    /\ prevMax.set
    /\ out.max_sell > prevMax.v

====
